---- MODULE Spec2Model ----
(***************************************************************************)
(* A model of bevy-planty's grammar builder (PlantBuilderComponent), its   *)
(* L-system pipeline and its turtle interpreter                            *)
(* (PlantRendererComponent::generate_verts).                               *)
(*                                                                         *)
(* Vectors are integer triples and orientations are 3x3 integer rotation   *)
(* matrices: rotation amounts are multiples of 90 degrees and segment      *)
(* lengths are whole units, for which the code's f32 arithmetic is exact   *)
(* up to rounding of sin/cos.                                              *)
(***************************************************************************)
EXTENDS Integers, Sequences, FiniteSets, TLC

VARIABLES
    render,   \* PlantRendererComponent.state : RenderState (cursor, states)
    call,     \* the last generate_verts call: its arguments, entry state, result
    builder,  \* PlantBuilderComponent.builder : LSystemBuilder (arena, axiom, rules)
    tokens,   \* PlantBuilderComponent.tokens : char -> (ArenaId, Action)
    last,     \* the last builder operation: its name, input, entry state, result;
              \* in SpecExpand the last run of the solver, in SpecEvents the last pass
    plant,    \* PlantComponent (structure, action_map), once generated
    options,  \* OptionsComponent (the fields the pipeline reads)
    events,   \* Events<GameEvent>: the events sent and not yet drained
    changed,  \* Changed<PlantComponent>: the plant was replaced since the last solve
    others,   \* the components of the plants spawned after the first, by Entity
    panic,    \* "none", or the unwrap() that panicked
    pc        \* "idle", "returned" (a call's result is at hand), "generated" (the
              \* plant of generate is at hand) or "panicked"

vars == <<render, call, builder, tokens, last, plant, options, events, changed, others,
          panic, pc>>

-----------------------------------------------------------------------------
(* Bounds of the model *)

\* longest action sequence handed to generate_verts in SpecRender
MaxActions == 3
\* longest rule or axiom text drawn from TextChars
MaxText == 3
\* longest list of rule texts handed to set_rules
MaxBatch == 3
\* largest iteration count the options are set to in SpecPipeline
MaxIterations == 2

-----------------------------------------------------------------------------
(* Action and Direction (plant.rs 152-195) *)

Directions == {"XPos", "XNeg", "YPos", "YNeg", "ZPos", "ZNeg"}

Nothing == <<"Nothing">>
Forwards == <<"Forwards">>
Rotate(d) == <<"Rotate", d>>
Push == <<"Push">>
Pop == <<"Pop">>

Actions == {Nothing, Forwards, Push, Pop} \cup {Rotate(d) : d \in Directions}

-----------------------------------------------------------------------------
(* Vec3 and Quat *)

Vec3(x, y, z) == <<x, y, z>>
ZERO == Vec3(0, 0, 0)
UnitY == Vec3(0, 1, 0)
IDENTITY == <<Vec3(1, 0, 0), Vec3(0, 1, 0), Vec3(0, 0, 1)>>

\* f32::NEG_INFINITY: below every coordinate a run can reach
NEG_INFINITY == -1000000
Splat(v) == Vec3(v, v, v)

VAdd(a, b) == Vec3(a[1] + b[1], a[2] + b[2], a[3] + b[3])
VScale(a, k) == Vec3(a[1] * k, a[2] * k, a[3] * k)
Dot(a, b) == a[1] * b[1] + a[2] * b[2] + a[3] * b[3]
Col(m, j) == Vec3(m[1][j], m[2][j], m[3][j])

\* Quat * Vec3
QMulVec(q, v) == Vec3(Dot(q[1], v), Dot(q[2], v), Dot(q[3], v))
\* Quat * Quat
QRow(r, q) == Vec3(Dot(r, Col(q, 1)), Dot(r, Col(q, 2)), Dot(r, Col(q, 3)))
QMul(p, q) == <<QRow(p[1], q), QRow(p[2], q), QRow(p[3], q)>>

\* cos and sin of an angle in degrees, a multiple of 90
Cos(deg) ==
    LET t == (deg \div 90) % 4
    IN CASE t = 0 -> 1 [] t = 1 -> 0 [] t = 2 -> -1 [] OTHER -> 0
Sin(deg) ==
    LET t == (deg \div 90) % 4
    IN CASE t = 0 -> 0 [] t = 1 -> 1 [] t = 2 -> 0 [] OTHER -> -1

RotX(a) == <<Vec3(1, 0, 0), Vec3(0, Cos(a), -Sin(a)), Vec3(0, Sin(a), Cos(a))>>
RotY(a) == <<Vec3(Cos(a), 0, Sin(a)), Vec3(0, 1, 0), Vec3(-Sin(a), 0, Cos(a))>>
RotZ(a) == <<Vec3(Cos(a), -Sin(a), 0), Vec3(Sin(a), Cos(a), 0), Vec3(0, 0, 1)>>

\* Quat::from_euler(EulerRot::XYZ, a, b, c)
FromEulerXYZ(a, b, c) == QMul(QMul(RotX(a), RotY(b)), RotZ(c))

-----------------------------------------------------------------------------
(* RenderState (plant.rs 47-62) *)

RenderStateDefault == [cursor |-> <<ZERO, IDENTITY>>, states |-> <<>>]

\* RenderState::push
RenderStatePush(states, position, rotation) == Append(states, <<position, rotation>>)

\* RenderState::pop: the saved cursor taken (when there is one) and the rest
RenderStatePop(states) ==
    IF states = <<>>
    THEN [some |-> FALSE, val |-> <<ZERO, IDENTITY>>, rest |-> states]
    ELSE [some |-> TRUE, val |-> states[Len(states)],
          rest |-> SubSeq(states, 1, Len(states) - 1)]

-----------------------------------------------------------------------------
(* PlantRendererComponent::generate_verts (plant.rs 65-109) *)

\* the Euler angles of Action::Rotate(r)
RotateParams(r, angle) ==
    CASE r = "XPos" -> <<angle, 0, 0>>
      [] r = "XNeg" -> <<-angle, 0, 0>>
      [] r = "YPos" -> <<0, angle, 0>>
      [] r = "YNeg" -> <<0, -angle, 0>>
      [] r = "ZPos" -> <<0, 0, angle>>
      [] r = "ZNeg" -> <<0, 0, -angle>>

\* the locals and the stack on entry: pos and rot are copies of state.cursor
LoopEntry(r) ==
    [pos |-> r.cursor[1], rot |-> r.cursor[2], verts |-> <<>>, states |-> r.states]

\* Action::Nothing (plant.rs 72-74)
NothingArmSilent(st) == st
NothingArm(st) == [st EXCEPT !.verts = Append(@, st.pos)]

\* Action::Forwards (plant.rs 75-78)
ForwardsArm(st, opt) ==
    LET pos == VAdd(st.pos, VScale(QMulVec(st.rot, UnitY), opt.segment_length))
    IN [st EXCEPT !.pos = pos, !.verts = Append(@, pos)]

\* Action::Rotate(r) (plant.rs 79-91)
RotateArm(st, r, opt) ==
    LET params == RotateParams(r, opt.rotation_amount)
    IN [st EXCEPT !.rot = QMul(@, FromEulerXYZ(params[1], params[2], params[3]))]

\* Action::Push (plant.rs 92-94)
PushArm(st) == [st EXCEPT !.states = RenderStatePush(@, st.pos, st.rot)]

\* Action::Pop (plant.rs 95-105)
PopArmKeepsRot(st) ==
    LET popped == RenderStatePop(st.states)
    IN IF popped.some
       THEN [pos |-> popped.val[1], rot |-> st.rot,
             verts |-> st.verts \o <<Splat(NEG_INFINITY), popped.val[1]>>,
             states |-> popped.rest]
       ELSE st
PopArm(st) ==
    LET popped == RenderStatePop(st.states)
    IN IF popped.some
       THEN [pos |-> popped.val[1], rot |-> popped.val[2],
             verts |-> st.verts \o <<Splat(NEG_INFINITY), popped.val[1]>>,
             states |-> popped.rest]
       ELSE st

\* one iteration of the loop over the actions (plant.rs 70-107)
LoopStep(st, action, opt) ==
    CASE action = Nothing -> NothingArm(st)
      [] action = Forwards -> ForwardsArm(st, opt)
      [] action[1] = "Rotate" -> RotateArm(st, action[2], opt)
      [] action = Push -> PushArm(st)
      [] action = Pop -> PopArm(st)

RECURSIVE Loop(_, _, _)
Loop(st, actions, opt) ==
    IF actions = <<>> THEN st
    ELSE Loop(LoopStep(st, Head(actions), opt), Tail(actions), opt)

\* the locals and the stack after the first k actions
LoopAfter(r, actions, opt, k) == Loop(LoopEntry(r), SubSeq(actions, 1, k), opt)

\* the returned vertices
GenerateVerts(r, actions, opt) == Loop(LoopEntry(r), actions, opt).verts

\* the component after the call: the stack is what the loop left, the stored
\* cursor is not written
GenerateVertsStateSaved(r, actions, opt) ==
    LET fin == Loop(LoopEntry(r), actions, opt)
    IN [cursor |-> <<fin.pos, fin.rot>>, states |-> fin.states]
GenerateVertsState(r, actions, opt) ==
    [cursor |-> r.cursor, states |-> Loop(LoopEntry(r), actions, opt).states]

-----------------------------------------------------------------------------
(* Characters and texts: a char is a one-character string, a text (a &str) *)
(* the sequence of its chars                                               *)

\* char::is_whitespace, and \s of the regex
IsWhitespace(c) == c \in {" ", "\t", "\n", "\r"}

\* \w of the regex: letters, digits and the underscore
WordChars ==
    {"A", "B", "C", "D", "E", "F", "G", "H", "I", "J", "K", "L", "M",
     "N", "O", "P", "Q", "R", "S", "T", "U", "V", "W", "X", "Y", "Z",
     "a", "b", "c", "d", "e", "f", "g", "h", "i", "j", "k", "l", "m",
     "n", "o", "p", "q", "r", "s", "t", "u", "v", "w", "x", "y", "z",
     "0", "1", "2", "3", "4", "5", "6", "7", "8", "9", "_"}
IsWord(c) == c \in WordChars

-----------------------------------------------------------------------------
(* Option and Result *)

None == [some |-> FALSE, val |-> <<>>]
Some(v) == [some |-> TRUE, val |-> v]

-----------------------------------------------------------------------------
(* HashMap<char, (ArenaId, Action)> *)

MapInsert(map, k, v) == [c \in DOMAIN map \cup {k} |-> IF c = k THEN v ELSE map[c]]
MapRemove(map, k) == [c \in DOMAIN map \ {k} |-> map[c]]
EmptyMap == [c \in {} |-> 0]

-----------------------------------------------------------------------------
(* dcc_lsystem::LSystemBuilder, as PlantBuilderComponent uses it.  An       *)
(* ArenaId is the index of its token in the arena.                          *)

LSystemBuilderDefault == [arena |-> <<>>, axiom |-> None, rules |-> <<>>]

IsValid(arena, id) == id \in 1..Len(arena)

\* LSystemBuilder::token: Err on a name with whitespace, else the pushed id
BuilderToken(b, name) ==
    IF IsWhitespace(name)
    THEN [ok |-> FALSE, b |-> b, id |-> 0]
    ELSE [ok |-> TRUE, b |-> [b EXCEPT !.arena = Append(@, name)], id |-> Len(b.arena) + 1]

\* LSystemBuilder::transformation_rule
BuilderTransformationRule(b, predecessor, successor) ==
    IF IsValid(b.arena, predecessor)
       /\ \A k \in 1..Len(successor) : IsValid(b.arena, successor[k])
    THEN [ok |-> TRUE,
          b |-> [b EXCEPT !.rules =
                    Append(@, [predecessor |-> predecessor, successor |-> successor])]]
    ELSE [ok |-> FALSE, b |-> b]

\* LSystemBuilder::axiom
BuilderAxiom(b, axiom) ==
    IF \A k \in 1..Len(axiom) : IsValid(b.arena, axiom[k])
    THEN [ok |-> TRUE, b |-> [b EXCEPT !.axiom = Some(axiom)]]
    ELSE [ok |-> FALSE, b |-> b]

-----------------------------------------------------------------------------
(* PlantBuilderComponent (plant.rs 225-318): self is [builder, tokens]      *)

PlantBuilderDefault == [builder |-> LSystemBuilderDefault, tokens |-> EmptyMap]

\* get_token (plant.rs 304-309)
GetToken(self, token) ==
    IF token \in DOMAIN self.tokens
    THEN [ok |-> TRUE, id |-> self.tokens[token].id, action |-> self.tokens[token].action]
    ELSE [ok |-> FALSE, id |-> 0, action |-> Nothing]

\* the regex \s*(\w)\s*=\s*((?:\s*\S+\s*)*)\s* of add_rule (plant.rs 241)
RECURSIVE SkipWhitespace(_, _)
SkipWhitespace(text, i) ==
    IF i <= Len(text) /\ IsWhitespace(text[i]) THEN SkipWhitespace(text, i + 1) ELSE i

\* \s*(\w)\s*= matches from position s on
MatchesAt(text, s) ==
    LET w == SkipWhitespace(text, s)
    IN /\ w <= Len(text)
       /\ IsWord(text[w])
       /\ LET e == SkipWhitespace(text, w + 1)
          IN e <= Len(text) /\ text[e] = "="

\* Regex::captures: the leftmost match anywhere in the text; group 2 runs from
\* the first non-whitespace char after the '=' to the end of the text
Captures(text) ==
    LET starts == {s \in 1..Len(text) : MatchesAt(text, s)}
    IN IF starts = {}
       THEN None
       ELSE LET s == CHOOSE m \in starts : \A o \in starts : m <= o
                w == SkipWhitespace(text, s)
                e == SkipWhitespace(text, w + 1)
                p == SkipWhitespace(text, e + 1)
            IN Some(<<text[w], SubSeq(text, p, Len(text))>>)

\* the loop over cap[2].chars() (plant.rs 252-257): the ids, or the first
\* char that is no token
RECURSIVE ResolveAll(_, _)
ResolveAll(self, chars) ==
    IF chars = <<>> THEN [ok |-> TRUE, ids |-> <<>>]
    ELSE LET t == GetToken(self, Head(chars))
         IN IF ~t.ok THEN [ok |-> FALSE, ids |-> <<>>]
            ELSE LET rest == ResolveAll(self, Tail(chars))
                 IN [ok |-> rest.ok, ids |-> IF rest.ok THEN <<t.id>> \o rest.ids ELSE <<>>]

\* add_rule (plant.rs 234-262)
AddRule(self, rule) ==
    LET cap == Captures(rule)
    IN IF ~cap.some THEN [ok |-> FALSE, self |-> self]
       ELSE LET lhs == GetToken(self, cap.val[1])
                rhs == ResolveAll(self, cap.val[2])
            IN IF ~lhs.ok \/ ~rhs.ok THEN [ok |-> FALSE, self |-> self]
               ELSE [ok |-> TRUE,
                     self |-> [self EXCEPT !.builder =
                                  BuilderTransformationRule(@, lhs.id, rhs.ids).b]]

\* the loop of set_rules (plant.rs 269-271)
RECURSIVE AddRules(_, _)
AddRules(self, rules) ==
    IF rules = <<>> THEN [ok |-> TRUE, self |-> self]
    ELSE LET r == AddRule(self, Head(rules))
         IN IF ~r.ok THEN r ELSE AddRules(r.self, Tail(rules))

\* set_rules (plant.rs 264-273)
SetRulesNoClear(self, rules) == AddRules(self, rules)
SetRules(self, rules) == AddRules([self EXCEPT !.builder.rules = <<>>], rules)

\* add_token (plant.rs 275-279): panics when LSystemBuilder::token fails
AddToken(self, token, action) ==
    LET t == BuilderToken(self.builder, token)
    IN IF ~t.ok THEN [panic |-> TRUE, self |-> self]
       ELSE [panic |-> FALSE,
             self |-> [builder |-> t.b,
                       tokens |-> MapInsert(self.tokens, token,
                                            [id |-> t.id, action |-> action])]]

\* remove_token (plant.rs 281-283)
RemoveTokenOrDefault(self, token) ==
    [ret |-> IF token \in DOMAIN self.tokens THEN Some(self.tokens[token])
             ELSE Some([id |-> 1, action |-> Nothing]),
     self |-> [self EXCEPT !.tokens = MapRemove(@, token)]]
RemoveTokenKeeps(self, token) ==
    [ret |-> IF token \in DOMAIN self.tokens THEN Some(self.tokens[token]) ELSE None,
     self |-> self]
RemoveToken(self, token) ==
    [ret |-> IF token \in DOMAIN self.tokens THEN Some(self.tokens[token]) ELSE None,
     self |-> [self EXCEPT !.tokens = MapRemove(@, token)]]

\* set_tokens (plant.rs 285-292)
RECURSIVE AddTokens(_, _)
AddTokens(self, list) ==
    IF list = <<>> THEN [panic |-> FALSE, self |-> self]
    ELSE LET r == AddToken(self, Head(list)[1], Head(list)[2])
         IN IF r.panic THEN r ELSE AddTokens(r.self, Tail(list))
SetTokens(self, list) == AddTokens(PlantBuilderDefault, list)

\* the filter_map of set_axiom (plant.rs 295-299)
RECURSIVE FilterTokens(_, _)
FilterTokens(self, chars) ==
    IF chars = <<>> THEN <<>>
    ELSE LET t == GetToken(self, Head(chars))
         IN (IF t.ok THEN <<t.id>> ELSE <<>>) \o FilterTokens(self, Tail(chars))

\* set_axiom (plant.rs 294-302)
SetAxiomStrict(self, text) ==
    IF \A k \in 1..Len(text) : GetToken(self, text[k]).ok
    THEN [ok |-> TRUE,
          self |-> [self EXCEPT !.builder = BuilderAxiom(@, FilterTokens(self, text)).b]]
    ELSE [ok |-> FALSE, self |-> self]
SetAxiom(self, text) ==
    [ok |-> TRUE,
     self |-> [self EXCEPT !.builder = BuilderAxiom(@, FilterTokens(self, text)).b]]

-----------------------------------------------------------------------------
(* Initial values: the components by their Default impls                    *)

NoCall == [actions |-> <<>>, entry |-> RenderStateDefault, verts |-> <<>>]
NoOp == [op |-> "none", arg |-> <<>>, pre |-> PlantBuilderDefault, ok |-> TRUE,
         follow |-> TRUE]
NoPlant == None

InitComponents ==
    /\ render = RenderStateDefault
    /\ call = NoCall
    /\ builder = LSystemBuilderDefault
    /\ tokens = EmptyMap
    /\ last = NoOp
    /\ plant = NoPlant
    /\ events = <<>>
    /\ changed = FALSE
    /\ others = <<>>
    /\ panic = "none"
    /\ pc = "idle"

-----------------------------------------------------------------------------
(* SpecRender: solver_system's closure, run again and again on one plant     *)
(* whose instructions change between the runs                                *)

RECURSIVE SeqsUpTo(_, _)
SeqsUpTo(S, n) ==
    IF n = 0 THEN {<<>>}
    ELSE LET shorter == SeqsUpTo(S, n - 1)
         IN shorter \cup {Append(s, x) : s \in {t \in shorter : Len(t) = n - 1}, x \in S}

\* the instructions and options the runs are given
RenderInputs == {Nothing, Forwards, Rotate("XPos"), Rotate("ZNeg"), Push, Pop}
ActionSeqs == SeqsUpTo(RenderInputs, MaxActions)
RenderOptions == {[segment_length |-> 2, rotation_amount |-> 90]}

InitRender == InitComponents /\ options \in RenderOptions

IsPrefix(s, t) == Len(s) <= Len(t) /\ SubSeq(t, 1, Len(s)) = s

\* plant.rs 134: let vertices = render.generate_verts(&instructions, options)
\* To keep the saved cursors finite, a call that finds saved cursors is followed
\* only when it leaves no new ones: what it leaves is a prefix of what it found.
CallGenerateVerts(actions) ==
    /\ pc = "idle"
    /\ \E left \in {GenerateVertsState(render, actions, options)} :
          /\ render.states = <<>> \/ IsPrefix(left.states, render.states)
          /\ render' = left
    /\ call' = [actions |-> actions, entry |-> render,
                verts |-> GenerateVerts(render, actions, options)]
    /\ pc' = "returned"

\* plant.rs 135-147: the vertices are counted and moved into the Polyline
StoreVertices ==
    /\ pc = "returned"
    /\ call' = NoCall
    /\ pc' = "idle"
    /\ UNCHANGED render

RenderNext ==
    /\ \/ \E actions \in ActionSeqs : CallGenerateVerts(actions)
       \/ StoreVertices
    /\ UNCHANGED <<builder, tokens, last, plant, options, events, changed, others, panic>>

SpecRender == InitRender /\ [][RenderNext]_vars

-----------------------------------------------------------------------------
(* dcc_lsystem::LSystem, as PlantComponent uses it: the arena, the rule of  *)
(* every token (its own id where the builder held none) and the state       *)

\* the rules_map entry of a token: the last rule added for it, else itself
RuleForFirst(rules, id) ==
    LET hits == {k \in 1..Len(rules) : rules[k].predecessor = id}
    IN IF hits = {} THEN <<id>>
       ELSE rules[CHOOSE k \in hits : \A o \in hits : k <= o].successor
RuleForOrNothing(rules, id) ==
    LET hits == {k \in 1..Len(rules) : rules[k].predecessor = id}
    IN IF hits = {} THEN <<>>
       ELSE rules[CHOOSE k \in hits : \A o \in hits : o <= k].successor
RuleFor(rules, id) ==
    LET hits == {k \in 1..Len(rules) : rules[k].predecessor = id}
    IN IF hits = {} THEN <<id>>
       ELSE rules[CHOOSE k \in hits : \A o \in hits : o <= k].successor

\* LSystemBuilder::finish: Err without an axiom
Finish(b) ==
    IF ~b.axiom.some THEN None
    ELSE Some([arena |-> b.arena,
               rules |-> [id \in 1..Len(b.arena) |-> RuleFor(b.rules, id)],
               state |-> b.axiom.val])

\* LSystem::step: every token of the state gives way to its rule
RECURSIVE Rewrite(_, _)
RECURSIVE ProducedAgain(_, _)
ProducedAgain(rules, out) ==
    IF out = <<>> THEN <<>>
    ELSE rules[Head(out)] \o ProducedAgain(rules, Tail(out))
RewriteInPlace(rules, state) ==
    IF state = <<>> THEN <<>>
    ELSE ProducedAgain(rules, rules[Head(state)]) \o Rewrite(rules, Tail(state))
Rewrite(rules, state) ==
    IF state = <<>> THEN <<>>
    ELSE rules[Head(state)] \o Rewrite(rules, Tail(state))

\* LSystem::step_by
RECURSIVE StepBy(_, _)
StepByNone(sys, n) == sys
StepByOnce(sys, n) == [sys EXCEPT !.state = Rewrite(sys.rules, @)]
StepBy(sys, n) ==
    IF n = 0 THEN sys
    ELSE StepBy([sys EXCEPT !.state = Rewrite(sys.rules, @)], n - 1)

\* LSystem::render: the names of the state's tokens
LSystemRender(sys) == [k \in 1..Len(sys.state) |-> sys.arena[sys.state[k]]]

\* generate (plant.rs 311-317): panics when finish fails
Generate(self) ==
    LET f == Finish(self.builder)
    IN IF ~f.some THEN [panic |-> TRUE, plant |-> NoPlant]
       ELSE [panic |-> FALSE,
             plant |-> Some([structure |-> f.val,
                             action_map |-> [c \in DOMAIN self.tokens |->
                                                self.tokens[c].action]])]

\* render_actions (plant.rs 24-32): panics on a char without an action
RenderActions(p) ==
    LET text == LSystemRender(p.structure)
    IN IF \A k \in 1..Len(text) : text[k] \in DOMAIN p.action_map
       THEN [panic |-> FALSE, actions |-> [k \in 1..Len(text) |-> p.action_map[text[k]]]]
       ELSE [panic |-> TRUE, actions |-> <<>>]

-----------------------------------------------------------------------------
(* SpecBuilder: the operations of one PlantBuilderComponent, called in any  *)
(* order.  Each call returns into "returned", where its Result is still at  *)
(* hand; the caller then drops it.  To keep the builders finite, a call is  *)
(* followed by further calls when its input is one of the samples (and, for *)
(* add_rule and add_token, adds the first rule or a new name); every other  *)
(* call is the last of its run.  A run may end with generate.               *)

TextChars == {"X", "F", "+", " ", "="}
Texts == SeqsUpTo(TextChars, MaxText)

SampleRules == {<<"X", "=", "F">>}
LongRules ==
    {<<" ", "X", " ", "=", " ", "F", "+", "F">>,
     <<"X", " ", "=", "F", " ", "F">>,
     <<"X", "=", "F", "+", "F", " ">>,
     <<"+", " ", "=", " ", "F", "X">>,
     <<"+", "=", "X", "=">>,
     <<"+", "=", "X", "=", "F">>}
RuleInputs == Texts \cup SampleRules \cup LongRules

SampleAxioms == {<<"X">>}
AxiomInputs == Texts \cup SampleAxioms

BatchTexts ==
    {<<"X", "=", "F">>, <<"F", "=", "F", "X">>, <<"X", "=", "F", "X">>, <<"X", "F">>}
BatchInputs == SeqsUpTo(BatchTexts, MaxBatch)
SampleBatches == {<<<<"X", "=", "F">>>>}

TokenLists ==
    {<< <<"X", Nothing>>, <<"F", Forwards>>, <<"+", Rotate("XPos")>> >>,
     << <<"X", Nothing>>, <<"X", Forwards>> >>}
TokenChars == {"X", " "}
TokenActions == {Nothing, Forwards}
RemovedChars == {"X", "F"}

Self == [builder |-> builder, tokens |-> tokens]

Return(self, op, arg, ok, follow) ==
    /\ builder' = self.builder
    /\ tokens' = self.tokens
    /\ last' = [op |-> op, arg |-> arg, pre |-> Self, ok |-> ok, follow |-> follow]
    /\ pc' = "returned"

CallAddRule(rule) ==
    /\ pc = "idle"
    /\ LET r == AddRule(Self, rule)
       IN Return(r.self, "add_rule", rule, r.ok,
                 rule \in SampleRules /\ builder.rules = <<>>)
    /\ UNCHANGED <<panic, plant>>

CallSetRules(rules) ==
    /\ pc = "idle"
    /\ LET r == SetRules(Self, rules)
       IN Return(r.self, "set_rules", rules, r.ok, rules \in SampleBatches)
    /\ UNCHANGED <<panic, plant>>

CallSetAxiom(text) ==
    /\ pc = "idle"
    /\ LET r == SetAxiom(Self, text)
       IN Return(r.self, "set_axiom", text, r.ok, text \in SampleAxioms)
    /\ UNCHANGED <<panic, plant>>

CallAddToken(token, action) ==
    /\ pc = "idle"
    /\ LET r == AddToken(Self, token, action)
       IN IF r.panic
          THEN panic' = "add_token" /\ pc' = "panicked" /\ UNCHANGED <<builder, tokens, last>>
          ELSE /\ Return(r.self, "add_token", <<token, action>>, TRUE,
                         \A k \in 1..Len(builder.arena) : builder.arena[k] # token)
               /\ UNCHANGED panic
    /\ UNCHANGED plant

CallRemoveToken(token) ==
    /\ pc = "idle"
    /\ LET r == RemoveToken(Self, token)
       IN Return(r.self, "remove_token", token, r.ret.some, TRUE)
    /\ UNCHANGED <<panic, plant>>

CallSetTokens(list) ==
    /\ pc = "idle"
    /\ LET r == SetTokens(Self, list)
       IN IF r.panic
          THEN panic' = "add_token" /\ pc' = "panicked" /\ UNCHANGED <<builder, tokens, last>>
          ELSE Return(r.self, "set_tokens", list, TRUE, TRUE) /\ UNCHANGED panic
    /\ UNCHANGED plant

\* the caller drops the Result (events.rs 55-56: .ok())
DropResult ==
    /\ pc = "returned"
    /\ last.follow
    /\ pc' = "idle"
    /\ last' = NoOp
    /\ UNCHANGED <<builder, tokens, panic, plant>>

\* generate (plant.rs 311-317) on the builder as the calls so far have left
\* it, as events.rs 55-57 calls it right after set_rules; the run ends here
CallGenerate ==
    /\ pc \in {"idle", "returned"}
    /\ LET g == Generate(Self)
       IN IF g.panic
          THEN panic' = "generate" /\ pc' = "panicked" /\ UNCHANGED plant
          ELSE plant' = g.plant /\ pc' = "generated" /\ UNCHANGED panic
    /\ UNCHANGED <<builder, tokens, last>>

BuilderNext ==
    /\ \/ \E rule \in RuleInputs : CallAddRule(rule)
       \/ \E rules \in BatchInputs : CallSetRules(rules)
       \/ \E text \in AxiomInputs : CallSetAxiom(text)
       \/ \E token \in TokenChars, action \in TokenActions : CallAddToken(token, action)
       \/ \E token \in RemovedChars : CallRemoveToken(token)
       \/ \E list \in TokenLists : CallSetTokens(list)
       \/ DropResult
       \/ CallGenerate
    /\ UNCHANGED <<render, call, options, events, changed, others>>

InitBuilder == InitComponents /\ options = [segment_length |-> 1, rotation_amount |-> 90]

SpecBuilder == InitBuilder /\ [][BuilderNext]_vars

-----------------------------------------------------------------------------
(* SpecPipeline: one spawned plant; the UI edits its options and symbols    *)
(* and sends events, process_events_system drains them, solver_system       *)
(* rebuilds the vertices of a changed plant.                                *)

\* GameEvent (events.rs 10-33): the variant, the Entity it names, its fields
TriggerUpdate(entity) == <<"TriggerUpdate", entity>>
SpawnNew == <<"SpawnNew">>
RemoveTokenEvent(entity, token) == <<"RemoveToken", entity, token>>
ChangeTokenEvent(entity, prev, next) == <<"ChangeToken", entity, prev, next>>
ChangeActionEvent(entity, token, action) == <<"ChangeAction", entity, token, action>>
AddTokenEvent(entity, token, action) == <<"AddToken", entity, token, action>>

\* The Entity of a plant is its number in the order the plants are spawned:
\* the plant of the SpawnNew that setup sends (lib.rs 69) is the first.  The
\* entities that are no plants (the light and the camera of setup, lib.rs
\* 46-68) have other numbers.
FirstPlant == 1

\* events.rs 64-73
DefaultTokens ==
    << <<"X", Nothing>>, <<"F", Forwards>>,
       <<"+", Rotate("XPos")>>, <<"-", Rotate("XNeg")>>,
       <<">", Rotate("YPos")>>, <<"<", Rotate("YNeg")>>,
       <<"^", Rotate("ZPos")>>, <<"v", Rotate("ZNeg")>>,
       <<"[", Push>>, <<"]", Pop>> >>

\* what the sliders and text fields of the UI are set to (ui.rs 111-188)
PipelineAxioms == {<<"X">>, <<"F", "Y">>}
PipelineRules ==
    {<< <<"X", "=", "F", "[", "+", "F", "]", "F">> >>,
     << <<"X", "=", "[", "F">> >>,
     << <<"X", "=", "F">>, <<"F", "=", "F", "X">>, <<"X", "=", "F", "+", "X">> >>}
PipelineOptions ==
    [axiom : PipelineAxioms, rules : PipelineRules, iterations : 1..MaxIterations,
     segment_length : {1, 2}, rotation_amount : {90}]

\* the symbol edits the UI sends (ui.rs 194-279)
EditedChars == {"X", "+"}
NextChars == {"Y", " "}
SymbolEventsOf(entity, chars) ==
    {RemoveTokenEvent(entity, c) : c \in chars}
    \cup {ChangeTokenEvent(entity, c, n) : c \in chars, n \in NextChars}
    \cup {ChangeActionEvent(entity, c, Forwards) : c \in chars}
    \cup {AddTokenEvent(entity, "~", Nothing)}
SymbolEvents == SymbolEventsOf(FirstPlant, EditedChars)

\* the builder that SpawnNew sets up (events.rs 61-76) and the options of the
\* bundle: OptionsComponent::default() (ui.rs 303-314) with its angle, segment
\* length and iteration count taken to the integer grid
SpawnedBuilder ==
    SetAxiom(SetTokens(PlantBuilderDefault, DefaultTokens).self, <<"X">>).self
SpawnedOptions ==
    [axiom |-> <<"X">>,
     rules |-> << <<"X", "=", "[", "+", "F", "]", "[", "^", "F", "]", "[", "-", "F", "]",
                    "[", "v", "F", "]", "F", "X">>,
                  <<"F", "=", "F", "X">> >>,
     iterations |-> 1, segment_length |-> 1, rotation_amount |-> 90]

\* one pass of the match in process_events_system (events.rs 46-129) over one
\* event.  w holds the components of the plants (plants[entity]), the bundles
\* that Commands will spawn when the system has run, the buffer, the panic,
\* and a log: for every event whether it changed the token registry of its
\* plant and which events it pushed onto the buffer.
TouchMarksChanged(w, entity, r) ==
    IF r.panic THEN [w EXCEPT !.panic = "add_token"]
    ELSE [w EXCEPT !.plants[entity].self = r.self,
                   !.plants[entity].changed = TRUE,
                   !.buf = Append(@, TriggerUpdate(entity))]
TouchFirstPlant(w, entity, r) ==
    IF r.panic THEN [w EXCEPT !.panic = "add_token"]
    ELSE [w EXCEPT !.plants[entity].self = r.self,
                   !.buf = Append(@, TriggerUpdate(FirstPlant))]
Touch(w, entity, r) ==
    IF r.panic THEN [w EXCEPT !.panic = "add_token"]
    ELSE [w EXCEPT !.plants[entity].self = r.self,
                   !.buf = Append(@, TriggerUpdate(entity))]

\* GameEvent::SpawnNew (events.rs 60-92): the Entity is reserved at once, the
\* bundle is inserted when the system has run
Spawn(w) ==
    [w EXCEPT !.spawn = Append(@, [self |-> SpawnedBuilder,
                                   plant |-> Generate(SpawnedBuilder).plant,
                                   options |-> SpawnedOptions,
                                   render |-> RenderStateDefault,
                                   changed |-> TRUE]),
              !.buf = Append(@, TriggerUpdate(Len(w.plants) + Len(w.spawn) + 1))]

\* plants.get_mut(entity) is Ok
IsPlant(w, entity) == entity \in 1..Len(w.plants)

\* GameEvent::TriggerUpdate (events.rs 54-58): the builder is set to the
\* options, the results of set_axiom and set_rules are dropped, the plant is
\* generated
RegenerateAsBuilt(w, entity) ==
    LET g == Generate(w.plants[entity].self)
    IN IF g.panic THEN [w EXCEPT !.panic = "generate"]
       ELSE [w EXCEPT !.plants[entity].plant = g.plant,
                      !.plants[entity].changed = TRUE]
RegenerateIfBuilt(w, entity) ==
    LET p == w.plants[entity]
        a == SetAxiom(p.self, p.options.axiom).self
        r == SetRules(a, p.options.rules)
        g == Generate(r.self)
    IN IF ~r.ok THEN [w EXCEPT !.plants[entity].self = r.self]
       ELSE IF g.panic
       THEN [w EXCEPT !.plants[entity].self = r.self, !.panic = "generate"]
       ELSE [w EXCEPT !.plants[entity].self = r.self,
                      !.plants[entity].plant = g.plant,
                      !.plants[entity].changed = TRUE]
RegenerateAndResend(w, entity) ==
    LET p == w.plants[entity]
        a == SetAxiom(p.self, p.options.axiom).self
        r == SetRules(a, p.options.rules)
        g == Generate(r.self)
    IN IF g.panic
       THEN [w EXCEPT !.plants[entity].self = r.self, !.panic = "generate"]
       ELSE [w EXCEPT !.plants[entity].self = r.self,
                      !.plants[entity].plant = g.plant,
                      !.plants[entity].changed = TRUE,
                      !.buf = Append(@, TriggerUpdate(entity))]
Regenerate(w, entity) ==
    LET p == w.plants[entity]
        a == SetAxiom(p.self, p.options.axiom).self
        r == SetRules(a, p.options.rules)
        g == Generate(r.self)
    IN IF g.panic
       THEN [w EXCEPT !.plants[entity].self = r.self, !.panic = "generate"]
       ELSE [w EXCEPT !.plants[entity].self = r.self,
                      !.plants[entity].plant = g.plant,
                      !.plants[entity].changed = TRUE]

HandleEvent(w, e) ==
    IF e[1] = "SpawnNew" THEN Spawn(w)
    ELSE IF ~IsPlant(w, e[2]) THEN w
    ELSE
    LET entity == e[2]
        p == w.plants[entity]
    IN
    CASE e[1] = "TriggerUpdate" -> Regenerate(w, entity)
      [] e[1] = "RemoveToken" ->
            [w EXCEPT !.plants[entity].self = RemoveToken(p.self, e[3]).self,
                      !.buf = Append(@, TriggerUpdate(entity))]
      [] e[1] = "ChangeToken" ->
            LET r == RemoveToken(p.self, e[3])
            IN IF r.ret.some
               THEN Touch(w, entity, AddToken(r.self, e[4], r.ret.val.action))
               ELSE w
      [] e[1] = "ChangeAction" ->
            LET r == RemoveToken(p.self, e[3])
            IN IF r.ret.some THEN Touch(w, entity, AddToken(r.self, e[3], e[4]))
               ELSE w
      [] e[1] = "AddToken" ->
            Touch(w, entity, AddToken(p.self, e[3], e[4]))

\* what the log keeps of one event: w before it, n after it
Logged(w, n, e) ==
    [event |-> e,
     mutated |-> /\ e[1] # "SpawnNew"
                 /\ IsPlant(w, e[2])
                 /\ n.plants[e[2]].self.tokens # w.plants[e[2]].self.tokens,
     sent |-> SubSeq(n.buf, Len(w.buf) + 1, Len(n.buf)),
     before |-> w.plants,
     after |-> n.plants,
     panic |-> n.panic # "none"]

\* the loop over events.drain() (events.rs 46): a panic ends it
RECURSIVE HandleEvents(_, _)
HandleEvents(w, queue) ==
    IF queue = <<>> \/ w.panic # "none" THEN w
    ELSE \* the event is handled once, n is what it leaves
         LET n == HandleEvent(w, Head(queue))
         IN HandleEvents([n EXCEPT !.log = Append(@, Logged(w, n, Head(queue)))],
                         Tail(queue))

\* SpawnNew (events.rs 60-92) has built the plant; its TriggerUpdate is sent.
\* The options start at values of the integer grid, as the sliders and text
\* fields leave them, in place of OptionsComponent::default() (30 degrees,
\* segments of 0.25).
InitPipeline ==
    LET self == SpawnedBuilder
    IN /\ builder = self.builder
       /\ tokens = self.tokens
       /\ plant = Generate(self).plant
       /\ options \in PipelineOptions
       /\ render = RenderStateDefault
       /\ call = NoCall
       /\ last = NoOp
       /\ events = <<TriggerUpdate(FirstPlant)>>
       /\ changed = TRUE
       /\ others = <<>>
       /\ panic = "none"
       /\ pc = "idle"

\* The UI sends one event a frame: when it does, the queue holds at most the
\* TriggerUpdate that the last pass of process_events_system sent again.
FrameStart == events = <<>> \/ (Len(events) = 1 /\ events[1][1] = "TriggerUpdate")

\* ui.rs 111-188: a slider or a text field changes, TriggerUpdate is sent
UiEditOptions(o) ==
    /\ pc = "idle"
    /\ o # options
    /\ FrameStart
    /\ options' = o
    /\ events' = Append(events, TriggerUpdate(FirstPlant))
    /\ UNCHANGED <<render, call, builder, tokens, last, plant, changed, others, panic, pc>>

\* ui.rs 194-279: a symbol of the plant's action_map is edited or removed, or
\* "Add symbol" is clicked.  An event that adds a name is sent while the arena
\* holds the names of SpawnNew only.
IsAdding(e) == e[1] # "RemoveToken"
Plants ==
    <<[self |-> Self, plant |-> plant, options |-> options, render |-> render,
       changed |-> changed]>>
    \o others
UiEditSymbols(e) ==
    /\ pc = "idle"
    /\ FrameStart
    /\ e[2] \in 1..Len(Plants)
    /\ e[1] = "AddToken" \/ e[3] \in DOMAIN Plants[e[2]].plant.val.action_map
    /\ IsAdding(e) => Len(Plants[e[2]].self.builder.arena) = Len(DefaultTokens)
    /\ events' = Append(events, e)
    /\ UNCHANGED <<render, call, builder, tokens, last, plant, options, changed, others,
                   panic, pc>>

\* process_events_system (events.rs 35-134); the bundles of SpawnNew are
\* inserted when it has run
Drained ==
    HandleEvents([plants |-> Plants, spawn |-> <<>>, buf |-> <<>>, log |-> <<>>,
                  panic |-> "none"], events)
ProcessDropsBuffer(w) ==
    /\ pc = "idle"
    /\ events # <<>>
    /\ builder' = w.plants[FirstPlant].self.builder
    /\ tokens' = w.plants[FirstPlant].self.tokens
    /\ plant' = w.plants[FirstPlant].plant
    /\ changed' = w.plants[FirstPlant].changed
    /\ others' = Tail(w.plants) \o w.spawn
    /\ events' = <<>>
    /\ panic' = w.panic
    /\ pc' = IF w.panic = "none" THEN "idle" ELSE "panicked"
    /\ UNCHANGED <<render, call, options>>
Process(w) ==
    /\ pc = "idle"
    /\ events # <<>>
    /\ builder' = w.plants[FirstPlant].self.builder
    /\ tokens' = w.plants[FirstPlant].self.tokens
    /\ plant' = w.plants[FirstPlant].plant
    /\ changed' = w.plants[FirstPlant].changed
    /\ others' = Tail(w.plants) \o w.spawn
    /\ events' = w.buf
    /\ panic' = w.panic
    /\ pc' = IF w.panic = "none" THEN "idle" ELSE "panicked"
    /\ UNCHANGED <<render, call, options>>

ProcessEvents == \E w \in {Drained} : Process(w) /\ UNCHANGED last

\* Changed<PlantComponent> (plant.rs 124): the plant was written since the
\* last run of solver_system
PlantChangedAlways == TRUE
PlantChanged == changed

\* solver_system's closure up to generate_verts (plant.rs 129-134), for a
\* changed plant.  As in SpecRender, a run that finds saved cursors is followed
\* only when it leaves no new ones.
Solve ==
    /\ pc = "idle"
    /\ PlantChanged
    /\ LET stepped == [plant.val EXCEPT !.structure = StepBy(@, options.iterations)]
           r == RenderActions(stepped)
       IN /\ plant' = Some(stepped)
          /\ IF r.panic
             THEN /\ panic' = "render_actions"
                  /\ pc' = "panicked"
                  /\ UNCHANGED <<render, call, changed>>
             ELSE /\ \/ render.states = <<>>
                     \/ IsPrefix(GenerateVertsState(render, r.actions, options).states,
                                 render.states)
                  /\ render' = GenerateVertsState(render, r.actions, options)
                  /\ call' = [actions |-> r.actions, entry |-> render,
                              verts |-> GenerateVerts(render, r.actions, options),
                              text |-> LSystemRender(stepped.structure)]
                  /\ changed' = FALSE
                  /\ pc' = "returned"
                  /\ UNCHANGED panic
    /\ UNCHANGED <<builder, tokens, options, events, others>>

SolverSystem == Solve /\ UNCHANGED last

\* plant.rs 135-147: the vertices are counted and inserted as the Polyline
InsertBundle ==
    /\ pc = "returned"
    /\ call' = NoCall
    /\ pc' = "idle"
    /\ UNCHANGED <<render, builder, tokens, last, plant, options, events, changed, others,
                   panic>>

PipelineNext ==
    \/ \E o \in PipelineOptions : UiEditOptions(o)
    \/ \E e \in SymbolEvents : UiEditSymbols(e)
    \/ ProcessEvents
    \/ SolverSystem
    \/ InsertBundle

SpecPipeline == InitPipeline /\ [][PipelineNext]_vars

-----------------------------------------------------------------------------
(* SpecExpand: the expansion that solver_system computes (plant.rs 129-132), *)
(* applied to the grammars of a set of options, for every iteration count    *)
(* from zero.  One expansion at a time: the options are written and          *)
(* TriggerUpdate is sent, process_events_system generates the plant,         *)
(* solver_system expands it.  last keeps the run of solver_system and the    *)
(* run before it.                                                            *)

ExpandAxioms == {<<"X">>, <<"F", "X", "+">>}
ExpandRules ==
    {<< >>,
     << <<"X", "=", "F", "X">> >>,
     << <<"X", "=", "F", "+", "X">>, <<"F", "=", "X", "F">> >>}
ExpandOptions ==
    [axiom : ExpandAxioms, rules : ExpandRules, iterations : 0..MaxIterations,
     segment_length : {1}, rotation_amount : {90}]

InitExpand ==
    LET self == SpawnedBuilder
    IN /\ builder = self.builder
       /\ tokens = self.tokens
       /\ plant = Generate(self).plant
       /\ options \in ExpandOptions
       /\ render = RenderStateDefault
       /\ call = NoCall
       /\ last = NoOp
       /\ events = <<TriggerUpdate(FirstPlant)>>
       /\ changed = TRUE
       /\ others = <<>>
       /\ panic = "none"
       /\ pc = "idle"

\* the options are written, or left as they are, and TriggerUpdate is sent
\* (ui.rs 111-188; events.rs 97, 104, 116, 126)
SetOptions(o) ==
    /\ pc = "idle"
    /\ events = <<>>
    /\ ~changed
    /\ options' = o
    /\ events' = <<TriggerUpdate(FirstPlant)>>
    /\ UNCHANGED <<render, call, builder, tokens, last, plant, changed, others, panic, pc>>

\* what a run of solver_system expands: the grammar of the plant as generated,
\* the iteration count, and the text it arrives at
Run ==
    [grammar |-> [arena |-> plant.val.structure.arena,
                  rules |-> plant.val.structure.rules,
                  axiom |-> builder.axiom.val],
     from |-> plant.val.structure.state,
     n |-> options.iterations,
     text |-> LSystemRender(StepBy(plant.val.structure, options.iterations))]

Expand ==
    /\ Solve
    /\ last' = [op |-> "solver_system", arg |-> Run, pre |-> last.arg, ok |-> TRUE,
                follow |-> TRUE]

ExpandNext ==
    \/ \E o \in ExpandOptions : SetOptions(o)
    \/ ProcessEvents
    \/ Expand
    \/ InsertBundle

SpecExpand == InitExpand /\ [][ExpandNext]_vars

-----------------------------------------------------------------------------
(* SpecEvents: process_events_system with two plants.  The UI adds a plant   *)
(* once and edits the symbols of either plant; a pass of the system drains   *)
(* the events.  last keeps the log of the pass.                              *)

EventChars == {"X"}
EventEntities == {FirstPlant, FirstPlant + 1}
\* the symbol field of the UI (ui.rs 203-210) may also be left with the
\* symbol it had or with one that is registered already
RenamedTo(c) == {c, "F"}
PlantEvents ==
    UNION {SymbolEventsOf(entity, EventChars)
           \cup UNION {{ChangeTokenEvent(entity, c, n) : n \in RenamedTo(c)} :
                       c \in EventChars} :
           entity \in EventEntities}

\* the options of the first plant: as spawned, or with the axiom and rule
\* fields of the UI (ui.rs 111-188) holding a symbol that is not registered
EditedOptions ==
    [axiom |-> <<"X", "Y">>,
     rules |-> << <<"X", "=", "F">>, <<"Y", "=", "F">>, <<"F", "=", "F", "X">> >>,
     iterations |-> 1, segment_length |-> 1, rotation_amount |-> 90]
EventOptions == {SpawnedOptions, EditedOptions}

InitEvents ==
    /\ builder = SpawnedBuilder.builder
    /\ tokens = SpawnedBuilder.tokens
    /\ plant = Generate(SpawnedBuilder).plant
    /\ options \in EventOptions
    /\ render = RenderStateDefault
    /\ call = NoCall
    /\ last = NoOp
    /\ events = <<TriggerUpdate(FirstPlant)>>
    /\ changed = TRUE
    /\ others = <<>>
    /\ panic = "none"
    /\ pc = "idle"

\* "Add plant" (ui.rs 31-34), clicked while the first plant is the only one
UiSpawn ==
    /\ pc = "idle"
    /\ FrameStart
    /\ others = <<>>
    /\ events' = Append(events, SpawnNew)
    /\ UNCHANGED <<render, call, builder, tokens, last, plant, options, changed, others,
                   panic, pc>>

Pass ==
    \E w \in {Drained} :
       /\ Process(w)
       /\ last' = [op |-> "process_events_system", arg |-> w.log, pre |-> Self,
                   ok |-> w.panic = "none", follow |-> TRUE, queue |-> events]

EventsNext ==
    \/ UiSpawn
    \/ \E e \in PlantEvents : UiEditSymbols(e)
    \/ Pass

SpecEvents == InitEvents /\ [][EventsNext]_vars

\* process_events_system is a system of the app (lib.rs 37): it runs in every
\* frame, so a pass that can be taken is taken.  This is weak fairness of
\* Pass, WF_vars(Pass), with ENABLED <<Pass>>_vars written out: Pass can be
\* taken when the systems run and the queue holds an event, and a pass
\* always changes the queue.
PassEnabled == pc = "idle" /\ events # <<>>
PassFairness == []<>~PassEnabled \/ []<><<Pass>>_vars
SpecEventsFair == SpecEvents /\ PassFairness

-----------------------------------------------------------------------------
(* SpecStray: process_events_system with events that no plant answers to.   *)
(* Beside the edits of the UI, events are sent that name the camera; an     *)
(* edit of the UI can name a symbol that the plant's action_map still shows *)
(* while a removal has taken it from the registry.                          *)

\* GameEvent and the event queue are public (events.rs 10-33, lib.rs 10):
\* events that name an entity that is no plant, here the camera that setup
\* spawns (lib.rs 56-67), one of them in the queue at a time
Camera == 0
StrayEvents ==
    {TriggerUpdate(Camera), RemoveTokenEvent(Camera, "X"),
     ChangeTokenEvent(Camera, "X", "Y"), ChangeActionEvent(Camera, "X", Forwards),
     AddTokenEvent(Camera, "~", Nothing)}
SendStray(e) ==
    /\ pc = "idle"
    /\ \A k \in 1..Len(events) : events[k] \notin StrayEvents
    /\ events' = Append(events, e)
    /\ UNCHANGED <<render, call, builder, tokens, last, plant, options, changed, others,
                   panic, pc>>

StrayEdits ==
    SymbolEventsOf(FirstPlant, EventChars)
    \cup {RemoveTokenEvent(FirstPlant + 1, "X"),
          ChangeActionEvent(FirstPlant + 1, "X", Forwards)}

StrayNext ==
    \/ UiSpawn
    \/ \E e \in StrayEdits : UiEditSymbols(e)
    \/ \E e \in StrayEvents : SendStray(e)
    \/ Pass

SpecStray == InitEvents /\ [][StrayNext]_vars

-----------------------------------------------------------------------------
(* SpecPlants: two plants under both systems.  The UI adds a plant once and  *)
(* edits the symbols of either plant; among the edits, "]" is made to draw a *)
(* segment, so that the cursors that "[" saves stay on the branch stack.  A  *)
(* pass of process_events_system drains the events, solver_system interprets *)
(* the plants that were written.  last keeps the log of the pass, or the     *)
(* plants before and after the run of solver_system.                         *)

PlantsEvents ==
    PlantEvents \cup {ChangeActionEvent(entity, "]", Forwards) : entity \in EventEntities}

\* solver_system's closure (plant.rs 129-134) for the plant of one entity: s
\* holds the components of the plants and the panic
SolvePlantSharedStack(s, entity) ==
    LET p == s.plants[entity]
        stepped == [p.plant.val EXCEPT !.structure = StepBy(@, p.options.iterations)]
        r == RenderActions(stepped)
    IN IF r.panic
       THEN [s EXCEPT !.plants[entity].plant = Some(stepped), !.panic = "render_actions"]
       ELSE [s EXCEPT !.plants[entity].plant = Some(stepped),
                      !.plants[entity].render =
                          GenerateVertsState(s.plants[FirstPlant].render, r.actions,
                                             p.options),
                      !.plants[entity].changed = FALSE]
SolvePlant(s, entity) ==
    LET p == s.plants[entity]
        stepped == [p.plant.val EXCEPT !.structure = StepBy(@, p.options.iterations)]
        r == RenderActions(stepped)
    IN IF r.panic
       THEN [s EXCEPT !.plants[entity].plant = Some(stepped), !.panic = "render_actions"]
       ELSE [s EXCEPT !.plants[entity].plant = Some(stepped),
                      !.plants[entity].render =
                          GenerateVertsState(p.render, r.actions, p.options),
                      !.plants[entity].changed = FALSE]

\* plants.for_each_mut (plant.rs 129) over the plants that the Changed filter
\* lets through (plant.rs 124), from entity on; a panic ends it
RECURSIVE ForEachMut(_, _)
ForEachMut(s, entity) ==
    IF entity > Len(s.plants) \/ s.panic # "none" THEN s
    ELSE ForEachMut(IF s.plants[entity].changed THEN SolvePlant(s, entity) ELSE s,
                    entity + 1)

\* solver_system (plant.rs 112-150) over the plants
SolvePlants ==
    /\ pc = "idle"
    /\ \E entity \in 1..Len(Plants) : Plants[entity].changed
    /\ \E s \in {ForEachMut([plants |-> Plants, panic |-> "none"], FirstPlant)} :
          /\ plant' = s.plants[FirstPlant].plant
          /\ render' = s.plants[FirstPlant].render
          /\ changed' = s.plants[FirstPlant].changed
          /\ others' = Tail(s.plants)
          /\ panic' = s.panic
          /\ pc' = IF s.panic = "none" THEN "idle" ELSE "panicked"
          /\ last' = [op |-> "solver_system", arg |-> s.plants, pre |-> Plants,
                      ok |-> s.panic = "none", follow |-> TRUE]
    /\ UNCHANGED <<call, builder, tokens, options, events>>

PlantsNext ==
    \/ UiSpawn
    \/ \E e \in PlantsEvents : UiEditSymbols(e)
    \/ Pass
    \/ SolvePlants

SpecPlants == InitEvents /\ [][PlantsNext]_vars

-----------------------------------------------------------------------------
(* Claims about generate_verts, read off the call that has just returned *)

Returned == pc = "returned"
Sentinel == Splat(NEG_INFINITY)

\* the locals and the stack before and after the k-th action of the call
Before(k) == LoopAfter(call.entry, call.actions, options, k - 1)
After(k) == LoopAfter(call.entry, call.actions, options, k)

Count(seq, x) == Len(SelectSeq(seq, LAMBDA e : e = x))
SentinelCount(verts) == Count(verts, Sentinel)

\* C1: a call whose first action is Pop emits nothing for that Pop and leaves
\* the cursor at the position and orientation the call started with.
C1_LeadingPopIsNoOp ==
    (Returned /\ call.actions # <<>> /\ call.actions[1] = Pop) =>
        /\ After(1).verts = <<>>
        /\ <<After(1).pos, After(1).rot>> = call.entry.cursor

\* C2: at the start of every generate_verts call the stack of saved cursors is
\* empty.
C2_StackEmptyAtEntry == Returned => call.entry.states = <<>>

\* Push minus Pop over the first k actions
RECURSIVE Depth(_, _)
Depth(actions, k) ==
    IF k = 0 THEN 0
    ELSE Depth(actions, k - 1)
         + (IF actions[k] = Push THEN 1 ELSE IF actions[k] = Pop THEN -1 ELSE 0)

WellNested(actions) ==
    /\ \A k \in 1..Len(actions) : Depth(actions, k) >= 0
    /\ Depth(actions, Len(actions)) = 0

\* the Push that the Pop at k closes
MatchingPush(actions, k) ==
    CHOOSE i \in 1..(k - 1) :
        /\ actions[i] = Push
        /\ Depth(actions, i - 1) = Depth(actions, k)
        /\ \A j \in (i + 1)..(k - 1) : Depth(actions, j) > Depth(actions, k)

RECURSIVE PopsThatFind(_, _)
PopsThatFind(b, actions) ==
    IF actions = <<>> THEN 0
    ELSE (IF Head(actions) = Pop /\ b.states # <<>> THEN 1 ELSE 0)
         + PopsThatFind(LoopStep(b, Head(actions), options), Tail(actions))
SuccessfulPops == PopsThatFind(Before(1), call.actions)

\* what action a appends to the output, b before it and n after it
Emits(a, b, n) ==
    CASE a = Nothing ->
            n.verts = Append(b.verts, b.pos) /\ n.pos = b.pos /\ n.rot = b.rot
      [] a = Forwards ->
            n.verts = Append(b.verts, n.pos) /\ Len(n.verts) = Len(b.verts) + 1
      [] a = Pop /\ b.states # <<>> ->
            n.verts = b.verts \o <<Sentinel, n.pos>>
      [] OTHER -> n.verts = b.verts

\* every action of the call, from b on, emits as Emits says, and what they
\* have emitted at the end is what the call returned
RECURSIVE EveryActionEmits(_, _)
EveryActionEmits(b, actions) ==
    \/ actions = <<>> /\ b.verts = call.verts
    \/ \E n \in {LoopStep(b, Head(actions), options)} :
          Emits(Head(actions), b, n) /\ EveryActionEmits(n, Tail(actions))

C5_PointsPerAction ==
    Returned =>
        /\ EveryActionEmits(Before(1), call.actions)
        /\ Len(call.verts) =
              Count(call.actions, Nothing) + Count(call.actions, Forwards)
              + 2 * SuccessfulPops

\* a call with a Nothing, and a Pop that found a saved cursor
C5_Witness ==
    /\ Returned
    /\ Count(call.actions, Nothing) > 0
    /\ SuccessfulPops > 0
    /\ Count(call.actions, Pop) > SuccessfulPops

-----------------------------------------------------------------------------
(* Claims about the builder, read off the call that has just returned       *)

ReturnedFrom(op) == pc = "returned" /\ last.op = op

Registered(self, c) == c \in DOMAIN self.tokens
NonWhitespace(chars) == SelectSeq(chars, LAMBDA c : ~IsWhitespace(c))

\* The rule shape <ws>* symbol <ws>* '=' <ws>* (token <ws>*)* read over the
\* whole text: the symbol is the first char that is no whitespace, the tokens
\* are the chars after the '=' that are no whitespace.
ShapeSymbolAt(text) == SkipWhitespace(text, 1)
ShapeEqualsAt(text) == SkipWhitespace(text, ShapeSymbolAt(text) + 1)
HasRuleShape(text) ==
    /\ ShapeSymbolAt(text) <= Len(text)
    /\ text[ShapeSymbolAt(text)] # "="
    /\ ShapeEqualsAt(text) <= Len(text)
    /\ text[ShapeEqualsAt(text)] = "="
ShapeLhs(text) == text[ShapeSymbolAt(text)]
ShapeRhs(text) == NonWhitespace(SubSeq(text, ShapeEqualsAt(text) + 1, Len(text)))

AllRegistered(self, chars) == \A k \in 1..Len(chars) : Registered(self, chars[k])
Ids(self, chars) == [k \in 1..Len(chars) |-> self.tokens[chars[k]].id]

\* C7: add_rule on a rule text whose left-hand symbol or one of whose
\* right-hand symbols is not registered returns an error and leaves the builder
\* (its rules above all) as it was.
C7_UnknownSymbolRejected ==
    (/\ ReturnedFrom("add_rule")
     /\ HasRuleShape(last.arg)
     /\ \/ ~Registered(last.pre, ShapeLhs(last.arg))
        \/ ~AllRegistered(last.pre, ShapeRhs(last.arg)))
    => (~last.ok /\ Self = last.pre)

\* the rule add_rule builds from one text, given the tokens of self
RuleOf(self, text) ==
    LET r == AddRule([self EXCEPT !.builder.rules = <<>>], text)
    IN r.self.builder.rules[1]
Accepts(self, text) == AddRule(self, text).ok

C9_AxiomDropsUnknown ==
    ReturnedFrom("set_axiom") =>
        LET known == SelectSeq(last.arg, LAMBDA c : Registered(last.pre, c))
        IN /\ last.ok
           /\ builder.axiom = Some(Ids(last.pre, known))
           /\ builder.rules = last.pre.builder.rules
           /\ builder.arena = last.pre.builder.arena
           /\ tokens = last.pre.tokens

\* a text with a registered char between two that are not, on a builder whose
\* arena holds the char twice and whose axiom was set before
C9_Witness ==
    /\ ReturnedFrom("set_axiom")
    /\ Len(last.arg) = 3
    /\ ~Registered(last.pre, last.arg[1])
    /\ Registered(last.pre, last.arg[2])
    /\ ~Registered(last.pre, last.arg[3])
    /\ last.pre.builder.axiom.some
    /\ builder.axiom = Some(<<2>>)
    /\ builder.axiom # last.pre.builder.axiom

\* C10: add_rule accepts every text of the rule shape whose symbol and tokens
\* are all registered, and appends the rule symbol -> tokens.
C10_ShapeAccepted ==
    (/\ ReturnedFrom("add_rule")
     /\ HasRuleShape(last.arg)
     /\ Registered(last.pre, ShapeLhs(last.arg))
     /\ AllRegistered(last.pre, ShapeRhs(last.arg)))
    => /\ last.ok
       /\ builder.rules =
             Append(last.pre.builder.rules,
                    [predecessor |-> last.pre.tokens[ShapeLhs(last.arg)].id,
                     successor |-> Ids(last.pre, ShapeRhs(last.arg))])

\* C11: add_rule returns an error and leaves the builder as it was for every
\* text that has not the rule shape: a text without '=', a text with nothing
\* before the '=', a text with more than one symbol before the '='.
C11_MalformedRejected ==
    (ReturnedFrom("add_rule") /\ ~HasRuleShape(last.arg))
    => (~last.ok /\ Self = last.pre)

Generated == pc = "generated"

HasRule(b, id) == \E k \in 1..Len(b.rules) : b.rules[k].predecessor = id

\* the rules of the builder that no later rule of the same symbol follows
LastAdded(b) ==
    {k \in 1..Len(b.rules) :
        \A j \in (k + 1)..Len(b.rules) : b.rules[j].predecessor # b.rules[k].predecessor}

Redeclared(b) ==
    {k \in LastAdded(b) :
        \E j \in 1..(k - 1) : /\ b.rules[j].predecessor = b.rules[k].predecessor
                              /\ b.rules[j].successor # b.rules[k].successor}

GrammarIds(sys) ==
    {sys.state[k] : k \in 1..Len(sys.state)}
    \cup UNION {{sys.rules[id][k] : k \in 1..Len(sys.rules[id])} :
                   id \in {i \in DOMAIN sys.rules : HasRule(builder, i)}}

\* C19: after any sequence of builder operations, every symbol in the axiom
\* or in a rule's right-hand side of the generated grammar is a key of the
\* generated action_map.
C19_GrammarSymbolsRegistered ==
    Generated =>
        \A id \in GrammarIds(plant.val.structure) :
            plant.val.structure.arena[id] \in DOMAIN plant.val.action_map

\* C20: generate returns a grammar in every state the builder's operations
\* lead to: it never panics.
C20_GenerateNeverFails == panic # "generate"

-----------------------------------------------------------------------------
(* Claims about the pipeline, read off the run of solver_system that has    *)
(* just returned while no event is pending: the plant it solved was then    *)
(* generated from the options and the tokens as they stand                  *)

Solved == pc = "returned" /\ events = <<>>

Binds(c, action) == c \in DOMAIN tokens /\ tokens[c].action = action

Scenario ==
    /\ Solved
    /\ Binds("X", Nothing)
    /\ Binds("F", Forwards)
    /\ Binds("+", Rotate("XPos"))
    /\ Binds("[", Push)
    /\ Binds("]", Pop)
    /\ options.axiom = <<"X">>
    /\ options.rules = << <<"X", "=", "F", "[", "+", "F", "]", "F">> >>
    /\ options.iterations = 1

\* the forward axis after a rotation about X by a degrees
RotatedForward(a) == <<0, Cos(a), Sin(a)>>

\* C4: with tokens X:Nothing, F:Forwards, +:Rotate(XPos), [:Push, ]:Pop, axiom
\* "X", rule "X=F[+F]F" and one iteration the expansion is "F[+F]F" and the
\* points are P1 (one segment forward from the origin), P2 (one segment from
\* P1 along the rotated forward axis), the sentinel, P1 again, and P3 (one
\* segment forward from P1).
C4_ScenarioPoints ==
    Scenario =>
        LET s == options.segment_length
            P1 == VScale(UnitY, s)
            P2 == VAdd(P1, VScale(RotatedForward(options.rotation_amount), s))
            P3 == VAdd(P1, VScale(UnitY, s))
        IN /\ call.text = <<"F", "[", "+", "F", "]", "F">>
           /\ call.verts = <<P1, P2, Sentinel, P1, P3>>

\* the scenario with segments of length 1 and rotations by 90 degrees
C4_Witness ==
    /\ Scenario
    /\ options.segment_length = 1
    /\ options.rotation_amount = 90
    /\ call.text = <<"F", "[", "+", "F", "]", "F">>
    /\ call.verts = << <<0, 1, 0>>, <<0, 1, 1>>,
                       <<NEG_INFINITY, NEG_INFINITY, NEG_INFINITY>>,
                       <<0, 1, 0>>, <<0, 2, 0>> >>

-----------------------------------------------------------------------------
(* Claims about the expansion, read off the run of solver_system that has   *)
(* just returned                                                            *)

Expanded == pc = "returned" /\ last.op = "solver_system"

Names(arena, ids) == [k \in 1..Len(ids) |-> arena[ids[k]]]

Production(b, id) ==
    IF HasRule(b, id)
    THEN b.rules[CHOOSE k \in LastAdded(b) : b.rules[k].predecessor = id].successor
    ELSE <<id>>

\* the generations of the run: generation 0 is what the run started from
Generation(k) ==
    StepBy([arena |-> last.arg.grammar.arena, rules |-> last.arg.grammar.rules,
            state |-> last.arg.from], k).state

\* where the symbols produced by place i of a generation start in the next
RECURSIVE Offset(_, _, _)
Offset(b, cur, i) ==
    IF i = 1 THEN 0 ELSE Offset(b, cur, i - 1) + Len(Production(b, cur[i - 1]))

HasEarlier == DOMAIN last.pre # {}

\* C15: the expansion is a function of the grammar and the iteration count:
\* two runs of solver_system on the same grammar (tokens, productions, axiom)
\* with the same count interpret the same symbol sequence.
C15_SameInputsSameText ==
    (/\ Expanded
     /\ HasEarlier
     /\ last.pre.grammar = last.arg.grammar
     /\ last.pre.n = last.arg.n)
    => (last.pre.text = last.arg.text /\ call.text = last.arg.text)

\* the second of two runs on one grammar whose productions lengthen the axiom
C15_Witness ==
    /\ Expanded
    /\ HasEarlier
    /\ last.pre.grammar = last.arg.grammar
    /\ last.pre.n = last.arg.n
    /\ last.arg.n >= 1
    /\ Len(last.arg.text) > Len(last.arg.grammar.axiom)

\* the productions of the symbols of a sequence, one after the other
RECURSIVE Replaced(_, _, _)
Replaced(b, cur, i) ==
    IF i = 0 THEN <<>> ELSE Replaced(b, cur, i - 1) \o Production(b, cur[i])

-----------------------------------------------------------------------------
(* Claims about the rebuilds of the pipeline                                *)

\* the axiom of the builder rewritten n times by the builder's productions
RECURSIVE FromAxiom(_, _)
FromAxiom(b, n) ==
    IF n = 0 THEN b.axiom.val
    ELSE LET prev == FromAxiom(b, n - 1) IN Replaced(b, prev, Len(prev))

\* C16: whenever solver_system has produced a point list, the sequence it has
\* interpreted is the plant's axiom rewritten exactly options.iterations times,
\* whatever events and runs of the solver went before: no run steps the
\* expansion of an earlier run further.
C16_RebuildFromAxiom ==
    Returned =>
        \E gen \in {FromAxiom(builder, options.iterations)} :
           /\ plant.val.structure.state = gen
           /\ call.text = Names(builder.arena, gen)

\* a rebuild after an earlier run of the solver (which left a saved cursor) and
\* after a symbol event was handled, with productions that make every further
\* step show
C16_Witness ==
    /\ Returned
    /\ call.entry.states # <<>>
    /\ Len(builder.arena) > Len(DefaultTokens)
    /\ options.iterations >= 2
    /\ \A n \in 1..(options.iterations + 1) :
          Len(FromAxiom(builder, n)) > Len(FromAxiom(builder, n - 1))

-----------------------------------------------------------------------------
(* Claims about the events, read off the log of the last pass of            *)
(* process_events_system that ran to its end                                *)

Range(seq) == {seq[k] : k \in 1..Len(seq)}
PassedAny == last.op = "process_events_system"
IsTriggerUpdate(e) == e[1] = "TriggerUpdate"
Passed == last.op = "process_events_system" /\ panic = "none"

RECURSIVE AllSent(_)
AllSent(log) == IF log = <<>> THEN <<>> ELSE Head(log).sent \o AllSent(Tail(log))

Handled(log) == [k \in 1..Len(log) |-> log[k].event]

\* the last pass has pushed TriggerUpdate(entity): after SpawnNew, whose
\* bundle gets that entity, or after a token edit of that plant
Enqueued(entity) == Passed /\ TriggerUpdate(entity) \in Range(AllSent(last.arg))

\* what TriggerUpdate makes of the components p: the builder set to the
\* options with the registry as it is, and the grammar generated from it
Rebuilt(p) ==
    LET self == SetRules(SetAxiom(p.self, p.options.axiom).self, p.options.rules).self
    IN [p EXCEPT !.self = self, !.plant = Generate(self).plant, !.changed = TRUE]

\* the last pass has handled TriggerUpdate(entity) for a plant that exists,
\* and has regenerated its grammar from its options and tokens
Regenerated(entity) ==
    /\ PassedAny
    /\ \E k \in 1..Len(last.arg) :
          /\ last.arg[k].event = TriggerUpdate(entity)
          /\ entity \in 1..Len(last.arg[k].before)
          /\ last.arg[k].after[entity] = Rebuilt(last.arg[k].before[entity])

\* C23: a pass handles the events it has drained and none of those it pushes;
\* what it pushes is in the queue when it has run; a TriggerUpdate is handled
\* when its target is a plant; and (process_events_system running in every
\* frame) a pass that has pushed TriggerUpdate(entity) is followed by a pass
\* that handles it and regenerates that plant.
C23_EnqueuedUpdateIsHandledLater ==
    /\ [](Passed =>
            /\ Handled(last.arg) = last.queue
            /\ Range(AllSent(last.arg)) \subseteq Range(events)
            /\ \A k \in 1..Len(last.arg) :
                  last.arg[k].event[1] = "TriggerUpdate" =>
                      last.arg[k].event[2] \in 1..Len(last.arg[k].before))
    /\ \A entity \in EventEntities : Enqueued(entity) ~> Regenerated(entity)

\* the pass after the one that spawned the second plant has regenerated it,
\* and so has a pass after an edit of its symbols
C23_Witness ==
    /\ Regenerated(FirstPlant + 1)
    /\ others[1].self.tokens # SpawnedBuilder.tokens

NoSuchPlant(entry) ==
    entry.event[1] # "SpawnNew" /\ entry.event[2] \notin 1..Len(entry.before)
NoSuchSymbol(entry) ==
    /\ entry.event[1] \in {"ChangeToken", "ChangeAction"}
    /\ entry.event[2] \in 1..Len(entry.before)
    /\ ~Registered(entry.before[entry.event[2]].self, entry.event[3])

\* C27: an event that names an entity that is no plant, and a ChangeToken or
\* ChangeAction that names a symbol its plant's registry does not hold, leave
\* the components of every plant as they were and push no event.
C27_MisaddressedIsNoOp ==
    PassedAny =>
        \A k \in 1..Len(last.arg) :
           (NoSuchPlant(last.arg[k]) \/ NoSuchSymbol(last.arg[k])) =>
               /\ last.arg[k].after = last.arg[k].before
               /\ last.arg[k].sent = <<>>
               /\ ~last.arg[k].panic

\* one pass has handled a ChangeToken or ChangeAction for a symbol that the
\* plant's action_map still showed while the registry had lost it, and an
\* AddToken for the camera
C27_Witness ==
    /\ Passed
    /\ \E k \in 1..Len(last.arg) : NoSuchSymbol(last.arg[k])
    /\ \E k \in 1..Len(last.arg) :
          NoSuchPlant(last.arg[k]) /\ last.arg[k].event[1] = "AddToken"

\* the texts of a batch that add_rule refuses with the registry of self, and
\* the number of texts before the first of them
Failing(self, texts) == {k \in 1..Len(texts) : ~Accepts(self, texts[k])}
BuiltPrefix(self, texts) ==
    IF Failing(self, texts) = {} THEN Len(texts)
    ELSE (CHOOSE k \in Failing(self, texts) : \A o \in Failing(self, texts) : k <= o) - 1

AllTriggerUpdates(queue) == \A k \in 1..Len(queue) : IsTriggerUpdate(queue[k])

\* C24: in every pass, a TriggerUpdate pushes no event and any other event
\* pushes at most one event, a TriggerUpdate; so a pass over a queue of
\* TriggerUpdates alone sends nothing, and the pass that follows a pass with
\* no event added in between leaves the queue empty.
C24_NoCascade ==
    /\ [](PassedAny =>
            /\ \A k \in 1..Len(last.arg) :
                  /\ IsTriggerUpdate(last.arg[k].event) => last.arg[k].sent = <<>>
                  /\ Len(last.arg[k].sent) <= 1
                  /\ AllTriggerUpdates(last.arg[k].sent)
            /\ AllTriggerUpdates(last.queue) => AllSent(last.arg) = <<>>)
    /\ [][(Passed /\ events = AllSent(last.arg) /\ events # <<>> /\ last' # last)
             => events' = <<>>]_vars

\* a pass over a SpawnNew or a token edit was followed, with no event added,
\* by a pass over the one TriggerUpdate it had sent: the queue is empty
C24_Witness ==
    /\ Passed
    /\ Len(Plants) = 2
    /\ last.queue = <<TriggerUpdate(FirstPlant + 1)>>
    /\ others[1].self.tokens # SpawnedBuilder.tokens
    /\ events = <<>>

-----------------------------------------------------------------------------
(* Claims about plants side by side (SpecPlants).                            *)

SolverRan == last.op = "solver_system"

\* the plant that an entry of the log targets; SpawnNew targets none
Targets(entry, i) == entry.event[1] # "SpawnNew" /\ entry.event[2] = i

\* what solver_system's closure leaves of the branch stack of p, from the
\* components of p alone
OwnStack(p) ==
    LET stepped == [p.plant.val EXCEPT !.structure = StepBy(@, p.options.iterations)]
    IN GenerateVertsState(p.render, RenderActions(stepped).actions, p.options)

\* C21: handling an event that targets plant e leaves the builder and token
\* registry (self) and the grammar and action map (plant) of every other plant
\* as they were; a run of solver_system leaves the branch stack of a plant it
\* does not interpret as it was, and the stack of a plant it interprets is
\* what that plant's own stack, grammar and options give.
C21_PlantsIndependent ==
    /\ PassedAny =>
          \A k \in 1..Len(last.arg) :
             LET entry == last.arg[k]
             IN /\ Len(entry.after) = Len(entry.before)
                /\ \A i \in 1..Len(entry.before) :
                      ~Targets(entry, i) =>
                          /\ entry.after[i].self = entry.before[i].self
                          /\ entry.after[i].plant = entry.before[i].plant
    /\ SolverRan /\ last.ok =>
          /\ Len(last.arg) = Len(last.pre)
          /\ \A i \in 1..Len(last.pre) :
                /\ last.arg[i].self = last.pre[i].self
                /\ last.arg[i].render =
                      IF last.pre[i].changed THEN OwnStack(last.pre[i])
                      ELSE last.pre[i].render

\* two plants whose builders differ, because an edit reached one of them; in
\* a run of solver_system the second plant alone was interpreted, beside the
\* first with cursors on its branch stack
C21_Witness ==
    /\ SolverRan
    /\ Len(last.pre) = 2
    /\ last.pre[2].changed /\ ~last.pre[1].changed
    /\ last.pre[1].render.states # <<>>
    /\ last.pre[2].plant.val.structure.state # <<>>
    /\ last.arg[2].render.states = <<>>
    /\ builder # others[1].self.builder

\* the symbols that rendering p.structure produces, now and after the
\* step_by of solver_system, are keys of p.action_map
Renderable(p) ==
    /\ ~RenderActions(p.plant.val).panic
    /\ ~RenderActions([p.plant.val EXCEPT
                          !.structure = StepBy(@, p.options.iterations)]).panic

\* C22: in every state that the passes of process_events_system and the runs
\* of solver_system lead to, each symbol that rendering a plant's structure
\* produces is a key of that plant's action_map, and render_actions has not
\* panicked; also while a TriggerUpdate for an edited plant waits.
C22_RenderedSymbolsHaveActions ==
    /\ panic # "render_actions"
    /\ \A i \in 1..Len(Plants) : Renderable(Plants[i])

\* a pass has removed from the registry of the second plant a symbol that its
\* structure renders, and the TriggerUpdate it sent waits
C22_Witness ==
    /\ PassedAny
    /\ Len(Plants) = 2
    /\ TriggerUpdate(2) \in Range(events)
    /\ \E k \in 1..Len(last.arg) : Targets(last.arg[k], 2) /\ last.arg[k].mutated
    /\ \E c \in Range(LSystemRender(Plants[2].plant.val.structure)) :
          c \notin DOMAIN Plants[2].self.tokens

====
